---- MODULE Spec2Model ----
(***************************************************************************)
(* A model of the text-scanning core of "unificador de catalogos.py":      *)
(* find_matching_bracket, remove_js_comments, clean_js_array_to_json_array,*)
(* parse_js_array and extract_array_by_key.                                *)
(*                                                                         *)
(* A text is a sequence of one-character strings.  Positions are the       *)
(* 0-based indices of the Python source; At(t, i) reads t[i].              *)
(***************************************************************************)
EXTENDS Integers, Sequences, FiniteSets, TLC

VARIABLES pc, s, start_index, fmb, source, rjc, js_text, key, found, array_str, pja

vars == <<pc, s, start_index, fmb, source, rjc, js_text, key, found, array_str, pja>>

\* ------------------------------------------------------------------ bounds

\* Longest text enumerated exhaustively for the bracket matcher.
MaxMatchLen == 4

\* Longest text enumerated exhaustively for the comment stripper.
MaxStripLen == 5

\* Most segments a text given to extract_array_by_key is put together from.
MaxSegments == 2

\* Most items between the brackets of a text given to parse_js_array.
MaxItems == 3

\* Most key: value pairs of an object literal given to parse_js_array.
MaxPairs == 2

\* Longest text given to both scanners when their termination is checked.
MaxScanLen == 4

\* ------------------------------------------------------------- characters

None == "None"

DQ == "\""
SQ == "'"
BS == "\\"
NL == "\n"
CR == "\r"

At(t, i) == t[i + 1]

\* t[a:b] of Python, for 0 <= a and b <= len(t)
Slice(t, a, b) == IF b <= a THEN <<>> ELSE SubSeq(t, a + 1, b)

AllSeqs(A, n) == UNION {[1..k -> A] : k \in 0..n}

Last(t) == t[Len(t)]

\* ------------------------------------------------- find_matching_bracket

\* A mutant of ClosesString: either kind of quote ends a string.
ClosesStringAnyQuote(ch, string_char) == ch \in {DQ, SQ}

\* Lines 30 and 73: ch == string_char, the test that ends a string.
ClosesString(ch, string_char) == ch = string_char

\* The locals of find_matching_bracket after lines 18-22.
FmbEnter(text, start) ==
    [i |-> start + 1, in_string |-> FALSE, string_char |-> None, escape |-> FALSE,
     stack |-> <<At(text, start)>>, outcome |-> "running", value |-> 0, err |-> None]

\* Line 17: the start character is no opening bracket.
FmbInvalidStart(start) ==
    [i |-> start, in_string |-> FALSE, string_char |-> None, escape |-> FALSE,
     stack |-> <<>>, outcome |-> "raise", value |-> 0,
     err |-> "start_index must point to '[' or '{'"]

FmbRaise(f, msg) == [f EXCEPT !.outcome = "raise", !.err = msg]

FmbAdvance(f) == [f EXCEPT !.i = f.i + 1]

\* A mutant of FmbCloser: the scan goes on after the stack has emptied.
FmbCloserKeepsScanning(f, ch) ==
    IF f.stack = <<>>
    THEN FmbRaise(f, "Unbalanced brackets")
    ELSE LET top == Last(f.stack)
             g == [f EXCEPT !.stack = SubSeq(f.stack, 1, Len(f.stack) - 1)]
         IN IF (top = "[" /\ ch # "]") \/ (top = "{" /\ ch # "}")
            THEN FmbRaise(g, "Mismatched brackets")
            ELSE FmbAdvance(g)

\* Lines 38-45: a closing bracket read outside a string with no escape pending.
FmbCloser(f, ch) ==
    IF f.stack = <<>>
    THEN FmbRaise(f, "Unbalanced brackets")
    ELSE LET top == Last(f.stack)
             g == [f EXCEPT !.stack = SubSeq(f.stack, 1, Len(f.stack) - 1)]
         IN IF (top = "[" /\ ch # "]") \/ (top = "{" /\ ch # "}")
            THEN FmbRaise(g, "Mismatched brackets")
            ELSE IF g.stack = <<>>
                 THEN [g EXCEPT !.outcome = "return", !.value = g.i]
                 ELSE FmbAdvance(g)

\* A mutant of FmbBody: brackets are looked for before the string state.
FmbBodyBracketsInStrings(text, f) ==
    LET ch == At(text, f.i) IN
    IF f.escape THEN FmbAdvance([f EXCEPT !.escape = FALSE])
    ELSE IF ch = BS THEN FmbAdvance([f EXCEPT !.escape = TRUE])
    ELSE IF ch = "[" \/ ch = "{"
         THEN FmbAdvance([f EXCEPT !.stack = Append(f.stack, ch)])
    ELSE IF ch = "]" \/ ch = "}" THEN FmbCloser(f, ch)
    ELSE IF f.in_string
         THEN IF ch = f.string_char
              THEN FmbAdvance([f EXCEPT !.in_string = FALSE, !.string_char = None])
              ELSE FmbAdvance(f)
    ELSE IF ch = DQ \/ ch = SQ
         THEN FmbAdvance([f EXCEPT !.in_string = TRUE, !.string_char = ch])
    ELSE FmbAdvance(f)

\* Lines 24-46: one iteration of the while loop, entered with i < len(s).
FmbBody(text, f) ==
    LET ch == At(text, f.i) IN
    IF f.escape THEN FmbAdvance([f EXCEPT !.escape = FALSE])
    ELSE IF ch = BS THEN FmbAdvance([f EXCEPT !.escape = TRUE])
    ELSE IF f.in_string
         THEN IF ClosesString(ch, f.string_char)
              THEN FmbAdvance([f EXCEPT !.in_string = FALSE, !.string_char = None])
              ELSE FmbAdvance(f)
    ELSE IF ch = DQ \/ ch = SQ
         THEN FmbAdvance([f EXCEPT !.in_string = TRUE, !.string_char = ch])
    ELSE IF ch = "[" \/ ch = "{"
         THEN FmbAdvance([f EXCEPT !.stack = Append(f.stack, ch)])
    ELSE IF ch = "]" \/ ch = "}" THEN FmbCloser(f, ch)
    ELSE FmbAdvance(f)

\* A mutant of FmbLoopExit: the last index is returned as a best guess.
FmbLoopExitBestGuess(f) == [f EXCEPT !.outcome = "return", !.value = f.i - 1]

\* Line 47: the loop ended without a return.
FmbLoopExit(f) == FmbRaise(f, "No matching bracket found")

\* Line 23 with the loop body and the statement after the loop.
FmbStep(text, f) == IF f.i < Len(text) THEN FmbBody(text, f) ELSE FmbLoopExit(f)

RECURSIVE FmbRun(_, _)
FmbRun(text, f) == IF f.outcome # "running" THEN f ELSE FmbRun(text, FmbStep(text, f))

\* find_matching_bracket(s, start_index): the final locals, with the outcome.
FindMatchingBracket(text, start) ==
    IF At(text, start) \notin {"[", "{"}
    THEN FmbInvalidStart(start)
    ELSE FmbRun(text, FmbEnter(text, start))

\* ---------------------------------------------------- remove_js_comments

\* The locals of remove_js_comments after lines 54-59.
RjcEnter ==
    [i |-> 0, in_string |-> FALSE, string_char |-> None, escape |-> FALSE,
     result_chars |-> <<>>, outcome |-> "running"]

\* Lines 63/69/74/79/87/105 with the i += 1 that follows each.
RjcCopy(r, ch) == [r EXCEPT !.result_chars = Append(r.result_chars, ch), !.i = r.i + 1]

\* A mutant of SkipLine: the line terminator is skipped with the comment.
RECURSIVE SkipLinePastTerminator(_, _)
SkipLinePastTerminator(text, i) ==
    IF i >= Len(text) THEN i
    ELSE IF At(text, i) \in {"\r", "\n"} THEN i + 1
    ELSE SkipLinePastTerminator(text, i + 1)

\* Lines 94-95: skip to the line terminator, which is kept.
RECURSIVE SkipLine(_, _)
SkipLine(text, i) ==
    IF i < Len(text) /\ At(text, i) \notin {"\r", "\n"} THEN SkipLine(text, i + 1) ELSE i

\* Lines 100-101: skip to the first "*/" at or after i.
RECURSIVE SkipBlock(_, _)
SkipBlock(text, i) ==
    IF i + 1 < Len(text) /\ ~(At(text, i) = "*" /\ At(text, i + 1) = "/")
    THEN SkipBlock(text, i + 1)
    ELSE i

\* A mutant of BlockEnd: after an unterminated block comment the index is
\* back on the opener.
BlockEndBackOnOpener(text, i) ==
    LET j == SkipBlock(text, i) IN IF j + 1 < Len(text) THEN j + 2 ELSE i - 2

\* Lines 99-102: the index after a block comment whose body starts at i.
BlockEnd(text, i) ==
    LET j == SkipBlock(text, i) IN IF j + 1 < Len(text) THEN j + 2 ELSE j

\* A mutant of RjcBody: comment openers are looked for before the string state.
RjcBodyCommentsInStrings(text, r) ==
    LET n == Len(text)
        ch == At(text, r.i)
    IN
    IF ch = "/" /\ r.i + 1 < n /\ At(text, r.i + 1) = "/"
    THEN [r EXCEPT !.i = SkipLine(text, r.i + 2)]
    ELSE IF ch = "/" /\ r.i + 1 < n /\ At(text, r.i + 1) = "*"
    THEN [r EXCEPT !.i = BlockEnd(text, r.i + 2)]
    ELSE IF r.escape THEN RjcCopy([r EXCEPT !.escape = FALSE], ch)
    ELSE IF r.in_string
         THEN IF ch = BS THEN RjcCopy([r EXCEPT !.escape = TRUE], ch)
              ELSE IF ch = r.string_char
                   THEN RjcCopy([r EXCEPT !.in_string = FALSE, !.string_char = None], ch)
                   ELSE RjcCopy(r, ch)
    ELSE IF ch = DQ \/ ch = SQ
         THEN RjcCopy([r EXCEPT !.in_string = TRUE, !.string_char = ch], ch)
    ELSE RjcCopy(r, ch)

\* Lines 61-106: one iteration of the outer while loop, entered with i < n.
RjcBody(text, r) ==
    LET n == Len(text)
        ch == At(text, r.i)
    IN
    IF r.escape THEN RjcCopy([r EXCEPT !.escape = FALSE], ch)
    ELSE IF r.in_string
         THEN IF ch = BS THEN RjcCopy([r EXCEPT !.escape = TRUE], ch)
              ELSE IF ClosesString(ch, r.string_char)
                   THEN RjcCopy([r EXCEPT !.in_string = FALSE, !.string_char = None], ch)
                   ELSE RjcCopy(r, ch)
    ELSE IF ch = DQ \/ ch = SQ
         THEN RjcCopy([r EXCEPT !.in_string = TRUE, !.string_char = ch], ch)
    ELSE IF ch = "/" /\ r.i + 1 < n /\ At(text, r.i + 1) = "/"
         THEN [r EXCEPT !.i = SkipLine(text, r.i + 2)]
    ELSE IF ch = "/" /\ r.i + 1 < n /\ At(text, r.i + 1) = "*"
         THEN [r EXCEPT !.i = BlockEnd(text, r.i + 2)]
    ELSE RjcCopy(r, ch)

\* A mutant of RjcStep: a block comment that is never closed is no comment;
\* its opener is dropped and what follows is copied as it stands.
RjcStepKeepsUnterminated(text, r) ==
    IF /\ r.i + 1 < Len(text) /\ ~r.in_string /\ ~r.escape
       /\ At(text, r.i) = "/" /\ At(text, r.i + 1) = "*"
       /\ SkipBlock(text, r.i + 2) + 1 >= Len(text)
    THEN [r EXCEPT !.result_chars = r.result_chars \o Slice(text, r.i + 2, Len(text)),
                   !.i = Len(text)]
    ELSE IF r.i < Len(text) THEN RjcBody(text, r) ELSE [r EXCEPT !.outcome = "return"]

\* Line 60 with the loop body and the return of line 107.
RjcStep(text, r) ==
    IF r.i < Len(text) THEN RjcBody(text, r) ELSE [r EXCEPT !.outcome = "return"]

RECURSIVE RjcRun(_, _)
RjcRun(text, r) == IF r.outcome # "running" THEN r ELSE RjcRun(text, RjcStep(text, r))

\* remove_js_comments(source): the joined result_chars.
RemoveJsComments(text) == RjcRun(text, RjcEnter).result_chars

\* ------------------------------------------------ character classes (re)

Letters ==
    {"a", "b", "c", "d", "e", "f", "g", "h", "i", "j", "k", "l", "m",
     "n", "o", "p", "q", "r", "s", "t", "u", "v", "w", "x", "y", "z",
     "A", "B", "C", "D", "E", "F", "G", "H", "I", "J", "K", "L", "M",
     "N", "O", "P", "Q", "R", "S", "T", "U", "V", "W", "X", "Y", "Z"}

Digits == {"0", "1", "2", "3", "4", "5", "6", "7", "8", "9"}

\* \s of the re module, on the characters a text of the model can hold.
IsSpace(c) == c \in {" ", "\t", "\n", "\r", "\f"}

\* [a-zA-Z_] and [a-zA-Z0-9_] of line 131; the latter is also \w for \b.
IsIdentStart(c) == c \in Letters \cup {"_"}

IsWord(c) == c \in Letters \cup Digits \cup {"_"}

\* The end of a greedy \s* that starts at i.
RECURSIVE SkipSpaces(_, _)
SkipSpaces(text, i) ==
    IF i < Len(text) /\ IsSpace(At(text, i)) THEN SkipSpaces(text, i + 1) ELSE i

\* text[i:].startswith(word)
HasPrefix(text, i, word) ==
    /\ i + Len(word) <= Len(text)
    /\ \A k \in 0..(Len(word) - 1) : At(text, i + k) = At(word, k)

\* text.find(ch, from): the least index >= from that holds ch, or -1.
RECURSIVE Find(_, _, _)
Find(text, ch, from) ==
    IF from >= Len(text) THEN -1
    ELSE IF At(text, from) = ch THEN from
    ELSE Find(text, ch, from + 1)

\* ------------------------------------- clean_js_array_to_json_array

\* Line 113: re.sub(r',\s*(\]|\})', r'\1', text) from position i on.  The
\* pattern knows nothing of strings: every leftmost match is replaced.
RECURSIVE SubTrailingCommas(_, _)
SubTrailingCommas(text, i) ==
    IF i >= Len(text) THEN <<>>
    ELSE LET j == SkipSpaces(text, i + 1) IN
         IF At(text, i) = "," /\ j < Len(text) /\ At(text, j) \in {"]", "}"}
         THEN <<At(text, j)>> \o SubTrailingCommas(text, j + 1)
         ELSE <<At(text, i)>> \o SubTrailingCommas(text, i + 1)

\* Lines 109-114.
CleanJsArrayToJsonArray(text) == SubTrailingCommas(RemoveJsComments(text), 0)

\* ------------------------------------------- the fallbacks of parse_js_array

\* The index of the quote that ends [^']* started at i, or -1.
NextSQ(text, i) == Find(text, SQ, i)

\* Line 123: re.sub(r"(?<=[:\s])'([^']*)'(?=[,\]\}])", r'"\1"', text) from i on.
RECURSIVE SubSingleQuotes(_, _)
SubSingleQuotes(text, i) ==
    IF i >= Len(text) THEN <<>>
    ELSE LET j == NextSQ(text, i + 1) IN
         IF /\ At(text, i) = SQ
            /\ i >= 1 /\ (At(text, i - 1) = ":" \/ IsSpace(At(text, i - 1)))
            /\ j # -1
            /\ j + 1 < Len(text) /\ At(text, j + 1) \in {",", "]", "}"}
         THEN <<DQ>> \o Slice(text, i + 1, j) \o <<DQ>> \o SubSingleQuotes(text, j + 1)
         ELSE <<At(text, i)>> \o SubSingleQuotes(text, i + 1)

\* The end of a greedy [a-zA-Z0-9_]* that starts at i.
RECURSIVE SkipWord(_, _)
SkipWord(text, i) ==
    IF i < Len(text) /\ IsWord(At(text, i)) THEN SkipWord(text, i + 1) ELSE i

\* Lines 128-131: quote_keys(s), re.sub(r'(\b[a-zA-Z_][a-zA-Z0-9_]*)\s*:', repl, s)
\* from position i on; repl drops the white space before the colon.
RECURSIVE SubQuoteKeys(_, _)
SubQuoteKeys(text, i) ==
    IF i >= Len(text) THEN <<>>
    ELSE LET k == SkipWord(text, i)
             j == SkipSpaces(text, k)
         IN
         IF /\ IsIdentStart(At(text, i))
            /\ (i = 0 \/ ~IsWord(At(text, i - 1)))
            /\ j < Len(text) /\ At(text, j) = ":"
         THEN <<DQ>> \o Slice(text, i, k) \o <<DQ, ":">> \o SubQuoteKeys(text, j + 1)
         ELSE <<At(text, i)>> \o SubQuoteKeys(text, i + 1)

\* ------------------------------------------------------------ json.loads

\* The white space the json module skips.
RECURSIVE JSkip(_, _)
JSkip(text, i) ==
    IF i < Len(text) /\ At(text, i) \in {" ", "\t", "\n", "\r"}
    THEN JSkip(text, i + 1)
    ELSE i

\* A parsed value is [t |-> its type, v |-> its content]:
\*   "str"  the decoded characters         "num"  the characters of the number
\*   "arr"  the sequence of elements       "obj"  the sequence of [k, x] pairs
\*   "null", "true", "false"  nothing
JNull == [t |-> "null", v |-> <<>>]

JFail(i) == [ok |-> FALSE, pos |-> i, val |-> JNull]

JOk(i, val) == [ok |-> TRUE, pos |-> i, val |-> val]

HexDigits == Digits \cup {"a", "b", "c", "d", "e", "f", "A", "B", "C", "D", "E", "F"}

\* The character a one-letter escape stands for ("\\b" names the backspace).
Unescape(e) ==
    CASE e = "n" -> "\n" [] e = "t" -> "\t" [] e = "r" -> "\r" [] e = "f" -> "\f"
      [] e = "b" -> "\\b" [] OTHER -> e

\* py_scanstring, strict: the body of a string from i on, acc the characters
\* decoded so far.  A \uXXXX escape is kept as "\\u" and its four digits.
RECURSIVE JString(_, _, _)
JString(text, i, acc) ==
    IF i >= Len(text) THEN JFail(i)
    ELSE LET ch == At(text, i) IN
         IF ch = DQ THEN JOk(i + 1, [t |-> "str", v |-> acc])
         ELSE IF ch = BS
              THEN IF i + 1 >= Len(text) THEN JFail(i)
                   ELSE LET e == At(text, i + 1) IN
                        IF e \in {DQ, BS, "/", "b", "f", "n", "r", "t"}
                        THEN JString(text, i + 2, Append(acc, Unescape(e)))
                        ELSE IF /\ e = "u" /\ i + 5 < Len(text)
                                /\ \A k \in 2..5 : At(text, i + k) \in HexDigits
                             THEN JString(text, i + 6,
                                          acc \o <<"\\u">> \o Slice(text, i + 2, i + 6))
                             ELSE JFail(i)
         ELSE IF ch \in {"\n", "\t", "\r", "\f"} THEN JFail(i)
         ELSE JString(text, i + 1, Append(acc, ch))

RECURSIVE SkipDigits(_, _)
SkipDigits(text, i) ==
    IF i < Len(text) /\ At(text, i) \in Digits THEN SkipDigits(text, i + 1) ELSE i

IsDigitAt(text, i) == i < Len(text) /\ At(text, i) \in Digits

\* NUMBER_RE, (-?(?:0|[1-9]\d*))(\.\d+)?([eE][-+]?\d+)?, piece by piece: each
\* operator takes the end of the match so far (-1: no match) and gives the new end.
NumInt(text, a) ==
    IF ~IsDigitAt(text, a) THEN -1
    ELSE IF At(text, a) = "0" THEN a + 1
    ELSE SkipDigits(text, a + 1)

NumFrac(text, b) ==
    IF b # -1 /\ b < Len(text) /\ At(text, b) = "." /\ IsDigitAt(text, b + 1)
    THEN SkipDigits(text, b + 2)
    ELSE b

NumExpDigits(text, c, g) == IF IsDigitAt(text, g) THEN SkipDigits(text, g + 1) ELSE c

NumExp(text, c) ==
    IF c # -1 /\ c < Len(text) /\ At(text, c) \in {"e", "E"}
    THEN NumExpDigits(text, c, IF c + 1 < Len(text) /\ At(text, c + 1) \in {"+", "-"}
                               THEN c + 2 ELSE c + 1)
    ELSE c

\* The end of the NUMBER_RE match that starts at i, or -1.
NumberEnd(text, i) ==
    NumExp(text, NumFrac(text, NumInt(text, IF i < Len(text) /\ At(text, i) = "-"
                                            THEN i + 1 ELSE i)))

\* The pair (k, x) put into the pairs of a dict: a repeated key keeps its
\* place and takes the new value.
JPut(pairs, k, x) ==
    IF \E n \in 1..Len(pairs) : pairs[n].k = k
    THEN [n \in 1..Len(pairs) |-> IF pairs[n].k = k THEN [k |-> k, x |-> x] ELSE pairs[n]]
    ELSE Append(pairs, [k |-> k, x |-> x])

RECURSIVE JValue(_, _)
RECURSIVE JArrayItems(_, _, _)
RECURSIVE JObjectItems(_, _, _)

\* JSONArray: after a value and the white space behind it, at j.
JArraySep(text, j, acc) ==
    IF j >= Len(text) THEN JFail(j)
    ELSE IF At(text, j) = "]" THEN JOk(j + 1, [t |-> "arr", v |-> acc])
    ELSE IF At(text, j) = "," THEN JArrayItems(text, JSkip(text, j + 1), acc)
    ELSE JFail(j)

\* JSONArray: r is what scan_once gave for the next element.
JArrayAfter(text, r, acc) ==
    IF ~r.ok THEN JFail(r.pos)
    ELSE JArraySep(text, JSkip(text, r.pos), Append(acc, r.val))

\* JSONArray: the elements from i on, acc the elements before.
JArrayItems(text, i, acc) == JArrayAfter(text, JValue(text, i), acc)

\* JSONArray: j is the first position after "[" and white space.
JArrayOpen(text, j) ==
    IF j < Len(text) /\ At(text, j) = "]"
    THEN JOk(j + 1, [t |-> "arr", v |-> <<>>])
    ELSE JArrayItems(text, j, <<>>)

\* JSONObject: after a pair and the white space behind it, at d.
JObjectSep(text, d, pairs) ==
    IF d >= Len(text) THEN JFail(d)
    ELSE IF At(text, d) = "}" THEN JOk(d + 1, [t |-> "obj", v |-> pairs])
    ELSE IF At(text, d) = ","
         THEN IF JSkip(text, d + 1) < Len(text) /\ At(text, JSkip(text, d + 1)) = DQ
              THEN JObjectItems(text, JSkip(text, d + 1), pairs)
              ELSE JFail(d)
    ELSE JFail(d)

\* JSONObject: x is what scan_once gave for the value of key kv.
JObjectAfter(text, kv, x, acc) ==
    IF ~x.ok THEN JFail(x.pos)
    ELSE JObjectSep(text, JSkip(text, x.pos), JPut(acc, kv, x.val))

\* JSONObject: the colon is expected at c, after key kv.
JObjectColon(text, kv, c, acc) ==
    IF c >= Len(text) \/ At(text, c) # ":" THEN JFail(c)
    ELSE JObjectAfter(text, kv, JValue(text, JSkip(text, c + 1)), acc)

\* JSONObject: k is what py_scanstring gave for the key.
JObjectKey(text, k, acc) ==
    IF ~k.ok THEN JFail(k.pos)
    ELSE JObjectColon(text, k.val.v, JSkip(text, k.pos), acc)

\* JSONObject: the pairs from the opening quote of a key at i on.
JObjectItems(text, i, acc) == JObjectKey(text, JString(text, i + 1, <<>>), acc)

\* JSONObject: j is the first position after "{" and white space.
JObjectOpen(text, j) ==
    IF j >= Len(text) THEN JFail(j)
    ELSE IF At(text, j) = "}" THEN JOk(j + 1, [t |-> "obj", v |-> <<>>])
    ELSE IF At(text, j) = DQ THEN JObjectItems(text, j, <<>>)
    ELSE JFail(j)

\* scan_once for what is neither a string, an object, an array, null, true
\* nor false: numEnd is the end of the NUMBER_RE match at i.
JNumber(text, i, numEnd) ==
    IF numEnd # -1 THEN JOk(numEnd, [t |-> "num", v |-> Slice(text, i, numEnd)])
    ELSE IF HasPrefix(text, i, <<"N", "a", "N">>)
         THEN JOk(i + 3, [t |-> "num", v |-> <<"N", "a", "N">>])
    ELSE IF HasPrefix(text, i, <<"I", "n", "f", "i", "n", "i", "t", "y">>)
         THEN JOk(i + 8, [t |-> "num", v |-> Slice(text, i, i + 8)])
    ELSE IF HasPrefix(text, i, <<"-", "I", "n", "f", "i", "n", "i", "t", "y">>)
         THEN JOk(i + 9, [t |-> "num", v |-> Slice(text, i, i + 9)])
    ELSE JFail(i)

\* scan_once(s, i): the value that starts at i.
JValue(text, i) ==
    IF i >= Len(text) THEN JFail(i)
    ELSE IF At(text, i) = DQ THEN JString(text, i + 1, <<>>)
    ELSE IF At(text, i) = "{" THEN JObjectOpen(text, JSkip(text, i + 1))
    ELSE IF At(text, i) = "[" THEN JArrayOpen(text, JSkip(text, i + 1))
    ELSE IF HasPrefix(text, i, <<"n", "u", "l", "l">>) THEN JOk(i + 4, JNull)
    ELSE IF HasPrefix(text, i, <<"t", "r", "u", "e">>)
         THEN JOk(i + 4, [t |-> "true", v |-> <<>>])
    ELSE IF HasPrefix(text, i, <<"f", "a", "l", "s", "e">>)
         THEN JOk(i + 5, [t |-> "false", v |-> <<>>])
    ELSE JNumber(text, i, NumberEnd(text, i))

\* decode: the value must be followed by white space only.
JsonLoadsEnd(text, r) ==
    IF r.ok /\ JSkip(text, r.pos) = Len(text)
    THEN [ok |-> TRUE, val |-> r.val]
    ELSE [ok |-> FALSE, val |-> JNull]

\* json.loads(text): ok is FALSE where it raises JSONDecodeError.
JsonLoads(text) == JsonLoadsEnd(text, JValue(text, JSkip(text, 0)))

\* -------------------------------------------------------- parse_js_array

\* A local that is not yet bound.
Unset == <<None>>

\* Line 117: the locals of parse_js_array once cleaned is bound.
PjaEnter(text) ==
    [cleaned |-> CleanJsArrayToJsonArray(text), alt |-> Unset, alt2 |-> Unset,
     at |-> "try", outcome |-> "running", value |-> JNull, err |-> None]

PjaReturn(p, val) == [p EXCEPT !.outcome = "return", !.value = val, !.at = "end"]

\* A mutant of PjaTry: the quotes are rewritten before the first parse.
PjaTryRewritesFirst(p) ==
    LET alt == SubSingleQuotes(p.cleaned, 0)
        r == JsonLoads(alt)
    IN IF r.ok THEN PjaReturn([p EXCEPT !.alt = alt], r.val)
       ELSE [p EXCEPT !.alt = alt, !.at = "fallback2"]

\* Lines 118-120: the strict parse of cleaned.
PjaTry(p) ==
    LET r == JsonLoads(p.cleaned) IN
    IF r.ok THEN PjaReturn(p, r.val) ELSE [p EXCEPT !.at = "fallback1"]

\* Lines 123-126: single quotes to double quotes, and a second parse.
PjaFallback1(p) ==
    LET alt == SubSingleQuotes(p.cleaned, 0)
        r == JsonLoads(alt)
    IN IF r.ok THEN PjaReturn([p EXCEPT !.alt = alt], r.val)
       ELSE [p EXCEPT !.alt = alt, !.at = "fallback2"]

\* Lines 128-131.
QuoteKeys(text) == SubQuoteKeys(text, 0)

\* Lines 132-136: bare keys quoted in alt, and the last parse.
PjaFallback2(p) ==
    LET alt2 == QuoteKeys(p.alt)
        r == JsonLoads(alt2)
    IN IF r.ok THEN PjaReturn([p EXCEPT !.alt2 = alt2], r.val)
       ELSE [p EXCEPT !.alt2 = alt2, !.outcome = "raise", !.at = "end",
                      !.err = "Failed to parse JSON array"]

\* Lines 118-136: the next stage.
PjaStep(p) ==
    CASE p.at = "try" -> PjaTry(p)
      [] p.at = "fallback1" -> PjaFallback1(p)
      [] p.at = "fallback2" -> PjaFallback2(p)

RECURSIVE PjaRun(_)
PjaRun(p) == IF p.outcome # "running" THEN p ELSE PjaRun(PjaStep(p))

\* parse_js_array(array_str): the final locals, with the outcome.
ParseJsArray(text) == PjaRun(PjaEnter(text))

\* -------------------------------------------------- extract_array_by_key

\* \s*:\s*\[ from k on: the index of the "[" that ends the match, or -1.
TailBracket(text, k) ==
    LET j == SkipSpaces(text, k)
        m == SkipSpaces(text, j + 1)
    IN IF j < Len(text) /\ At(text, j) = ":" /\ m < Len(text) /\ At(text, m) = "["
       THEN m
       ELSE -1

\* Line 143, first pattern, matched at i: key\s*:\s*\[ (the key is matched
\* literally, which is what re.escape is for).
BareMatchAt(text, k, i) ==
    IF HasPrefix(text, i, k) THEN TailBracket(text, i + Len(k)) ELSE -1

\* Line 143, second pattern, matched at i: ["']key["']\s*:\s*\[
QuotedMatchAt(text, k, i) ==
    IF /\ i < Len(text) /\ At(text, i) \in {DQ, SQ}
       /\ HasPrefix(text, i + 1, k)
       /\ i + 1 + Len(k) < Len(text) /\ At(text, i + 1 + Len(k)) \in {DQ, SQ}
    THEN TailBracket(text, i + 2 + Len(k))
    ELSE -1

MatchAt(pat, text, k, i) ==
    IF pat = "bare" THEN BareMatchAt(text, k, i) ELSE QuotedMatchAt(text, k, i)

NoMatch == [start |-> -1, end |-> -1]

\* Line 145: re.search(pat, js_text) from i on: the leftmost match.
RECURSIVE Search(_, _, _, _)
Search(pat, text, k, i) ==
    IF i > Len(text) THEN NoMatch
    ELSE IF MatchAt(pat, text, k, i) # -1
         THEN [start |-> i, end |-> MatchAt(pat, text, k, i) + 1]
         ELSE Search(pat, text, k, i + 1)

\* A mutant of Patterns: the quoted form is tried first.
PatternsQuotedFirst == <<"quoted", "bare">>

\* Line 143: the patterns, in the order they are tried.
Patterns == <<"bare", "quoted">>

\* Line 155.
ReturnNone ==
    [outcome |-> "return", none |-> TRUE, pattern |-> 0, start_bracket |-> 0,
     end_bracket |-> 0, value |-> <<>>, err |-> None]

RECURSIVE ExtractLoop(_, _, _)

\* A mutant of OnMatcherRaise: the matcher's error leaves extract_array_by_key.
OnMatcherRaisePropagates(text, k, n, r) ==
    [outcome |-> "raise", none |-> FALSE, pattern |-> n, start_bracket |-> 0,
     end_bracket |-> 0, value |-> <<>>, err |-> r.err]

\* Lines 153-154: except Exception: continue.
OnMatcherRaise(text, k, n, r) == ExtractLoop(text, k, n + 1)

\* Lines 144-155: the loop from the n-th pattern on.
ExtractLoop(text, k, n) ==
    IF n > Len(Patterns) THEN ReturnNone
    ELSE LET m == Search(Patterns[n], text, k, 0) IN
         IF m.start = -1 THEN ExtractLoop(text, k, n + 1)
         ELSE LET start_bracket == Find(text, "[", m.end - 1) IN
              IF start_bracket = -1 THEN ExtractLoop(text, k, n + 1)
              ELSE LET r == FindMatchingBracket(text, start_bracket) IN
                   IF r.outcome = "raise" THEN OnMatcherRaise(text, k, n, r)
                   ELSE [outcome |-> "return", none |-> FALSE, pattern |-> n,
                         start_bracket |-> start_bracket, end_bracket |-> r.value,
                         value |-> Slice(text, start_bracket, r.value + 1),
                         err |-> None]

\* extract_array_by_key(js_text, key): the span and the locals that gave it.
ExtractArrayByKey(text, k) == ExtractLoop(text, k, 1)

\* ------------------------------------------------------- state machines

Idle == [outcome |-> "idle"]

MatchAlphabet == {"[", "{", "]", "}", DQ, SQ, BS, "a"}

StripAlphabet == {"/", "*", DQ, SQ, BS, NL, CR, "a"}

\* A call find_matching_bracket(s, start_index) about to be made.
InitMatch ==
    /\ s \in AllSeqs(MatchAlphabet, MaxMatchLen) \ {<<>>}
    /\ start_index \in 0..(Len(s) - 1)
    /\ pc = "fmb_call"
    /\ fmb = Idle
    /\ source = <<>> /\ rjc = Idle
    /\ js_text = <<>> /\ key = <<>> /\ found = Idle
    /\ array_str = <<>> /\ pja = Idle

\* Lines 15-22.
FmbCall ==
    /\ pc = "fmb_call"
    /\ fmb' = IF At(s, start_index) \notin {"[", "{"}
              THEN FmbInvalidStart(start_index)
              ELSE FmbEnter(s, start_index)
    /\ pc' = "fmb"
    /\ UNCHANGED <<s, start_index, source, rjc, js_text, key, found, array_str, pja>>

\* Lines 23-46: one iteration of the loop.
FmbIter ==
    /\ pc = "fmb" /\ fmb.outcome = "running" /\ fmb.i < Len(s)
    /\ fmb' = FmbStep(s, fmb)
    /\ UNCHANGED <<pc, s, start_index, source, rjc, js_text, key, found, array_str, pja>>

\* Line 47: the loop condition fails.
FmbExhausted ==
    /\ pc = "fmb" /\ fmb.outcome = "running" /\ fmb.i >= Len(s)
    /\ fmb' = FmbStep(s, fmb)
    /\ UNCHANGED <<pc, s, start_index, source, rjc, js_text, key, found, array_str, pja>>

\* The call is over: a return or a raise.
FmbDone ==
    /\ pc = "fmb" /\ fmb.outcome # "running"
    /\ pc' = "done"
    /\ UNCHANGED <<s, start_index, fmb, source, rjc, js_text, key, found, array_str, pja>>

NextMatch == FmbCall \/ FmbIter \/ FmbExhausted \/ FmbDone

SpecMatch == InitMatch /\ [][NextMatch]_vars

\* A call remove_js_comments(source) about to be made.
InitStrip ==
    /\ source \in AllSeqs(StripAlphabet, MaxStripLen)
    /\ pc = "rjc_call"
    /\ rjc = Idle
    /\ s = <<>> /\ start_index = 0 /\ fmb = Idle
    /\ js_text = <<>> /\ key = <<>> /\ found = Idle
    /\ array_str = <<>> /\ pja = Idle

\* Lines 54-59.
RjcCall ==
    /\ pc = "rjc_call"
    /\ rjc' = RjcEnter
    /\ pc' = "rjc"
    /\ UNCHANGED <<s, start_index, fmb, source, js_text, key, found, array_str, pja>>

\* Lines 60-106: one iteration of the outer loop.
RjcIter ==
    /\ pc = "rjc" /\ rjc.outcome = "running" /\ rjc.i < Len(source)
    /\ rjc' = RjcStep(source, rjc)
    /\ UNCHANGED <<pc, s, start_index, fmb, source, js_text, key, found, array_str, pja>>

\* Line 107: the loop condition fails and the result is returned.
RjcReturn ==
    /\ pc = "rjc" /\ rjc.outcome = "running" /\ rjc.i >= Len(source)
    /\ rjc' = RjcStep(source, rjc)
    /\ pc' = "done"
    /\ UNCHANGED <<s, start_index, fmb, source, js_text, key, found, array_str, pja>>

NextStrip == RjcCall \/ RjcIter \/ RjcReturn

SpecStrip == InitStrip /\ [][NextStrip]_vars

\* Pieces of a JavaScript data file around the key K.
ExtractSegments ==
    { <<"K", ":", "[", "1", "]">>,
      <<DQ, "K", DQ, ":", "[", "2", "]">>,
      <<SQ, "K", SQ, " ", ":", " ", "[", "3", ",", "]">>,
      <<"K", ":", "[", "{", "]">>,
      <<DQ, "K", DQ, ":", "[", "[">>,
      <<"x", "K", ":", " ", "[", " ", SQ, "a", SQ, "]">>,
      <<"K", ":", "[", DQ, ",", "]", DQ, "]">>,
      <<"K", ":", "[", "1", "/", "*", "]", "*", "/", ",", "2", "]">>,
      <<"K", ":", "[", "{", "n", ":", "1", "}", "]">>,
      <<"K", ":", "[", "x", "]">>,
      <<"K", ":", "{", "}">>,
      <<";", NL>> }

RECURSIVE Concats(_, _)
Concats(S, n) ==
    IF n = 0 THEN {<<>>}
    ELSE LET shorter == Concats(S, n - 1) IN
         shorter \cup {a \o b : a \in shorter, b \in S}

\* A call extract_array_by_key(js_text, 'K') about to be made, as in
\* load_dailymotion_items and load_youtube_items.
InitExtract ==
    /\ js_text \in Concats(ExtractSegments, MaxSegments)
    /\ key = <<"K">>
    /\ pc = "extract_call"
    /\ found = Idle
    /\ s = <<>> /\ start_index = 0 /\ fmb = Idle
    /\ source = <<>> /\ rjc = Idle
    /\ array_str = <<>> /\ pja = Idle

\* Lines 138-155, and the caller's test of the result: a span goes on to
\* parse_js_array (lines 181, 201).
ExtractCall ==
    /\ pc = "extract_call"
    /\ found' = ExtractArrayByKey(js_text, key)
    /\ pc' = IF found'.outcome = "return" /\ ~found'.none THEN "pja_call" ELSE "done"
    /\ array_str' = found'.value
    /\ UNCHANGED <<s, start_index, fmb, source, rjc, js_text, key, pja>>

\* Line 117.
PjaCall ==
    /\ pc = "pja_call"
    /\ pja' = PjaEnter(array_str)
    /\ pc' = "pja"
    /\ UNCHANGED <<s, start_index, fmb, source, rjc, js_text, key, found, array_str>>

\* Lines 118-120.
PjaTryStrict ==
    /\ pc = "pja" /\ pja.outcome = "running" /\ pja.at = "try"
    /\ pja' = PjaStep(pja)
    /\ UNCHANGED <<pc, s, start_index, fmb, source, rjc, js_text, key, found, array_str>>

\* Lines 123-126.
PjaQuoteFix ==
    /\ pc = "pja" /\ pja.outcome = "running" /\ pja.at = "fallback1"
    /\ pja' = PjaStep(pja)
    /\ UNCHANGED <<pc, s, start_index, fmb, source, rjc, js_text, key, found, array_str>>

\* Lines 128-136.
PjaQuoteKeys ==
    /\ pc = "pja" /\ pja.outcome = "running" /\ pja.at = "fallback2"
    /\ pja' = PjaStep(pja)
    /\ UNCHANGED <<pc, s, start_index, fmb, source, rjc, js_text, key, found, array_str>>

\* The call is over: a return or a raise.
PjaDone ==
    /\ pc = "pja" /\ pja.outcome # "running"
    /\ pc' = "done"
    /\ UNCHANGED <<s, start_index, fmb, source, rjc, js_text, key, found, array_str, pja>>

NextParse == PjaCall \/ PjaTryStrict \/ PjaQuoteFix \/ PjaQuoteKeys \/ PjaDone

NextExtract == ExtractCall \/ NextParse

SpecExtract == InitExtract /\ [][NextExtract]_vars

\* What a literal is opened and closed with.
ParseWrappers ==
    { <<(<<"[">>), (<<"]">>)>>,
      <<(<<"[", "{">>), (<<"}", "]">>)>>,
      <<(<<"{">>), (<<"}">>)>>,
      <<(<<"[">>), (<<",", "]">>)>>,
      <<(<<"[", "{">>), (<<",", " ", "}", "]">>)>> }

\* What stands between them.
ParseItems ==
    { <<DQ, "a", DQ>>,
      <<SQ, "a", SQ>>,
      <<"n", ":">>,
      <<"1">>,
      <<",">>,
      <<" ">>,
      <<DQ, ",", "]", DQ>>,
      <<DQ, "n", ":", DQ>>,
      <<DQ, " ", SQ, "a", SQ, ",", DQ>>,
      <<"/", "*", "c", "*", "/">> }

\* A call parse_js_array(array_str) about to be made.
InitParse ==
    /\ array_str \in {w[1] \o b \o w[2] : w \in ParseWrappers,
                                         b \in Concats(ParseItems, MaxItems)}
    /\ pc = "pja_call"
    /\ pja = Idle
    /\ s = <<>> /\ start_index = 0 /\ fmb = Idle
    /\ source = <<>> /\ rjc = Idle
    /\ js_text = <<>> /\ key = <<>> /\ found = Idle

SpecParse == InitParse /\ [][NextParse]_vars

ScanAlphabet == {"[", "]", DQ, SQ, BS, "/", "*", NL}

\* A call of either scanner about to be made on a text.
InitScans ==
    /\ \E t \in AllSeqs(ScanAlphabet, MaxScanLen) :
          \/ /\ t # <<>> /\ s = t /\ start_index \in 0..(Len(t) - 1)
             /\ pc = "fmb_call" /\ source = <<>>
          \/ /\ source = t /\ pc = "rjc_call" /\ s = <<>> /\ start_index = 0
    /\ fmb = Idle /\ rjc = Idle
    /\ js_text = <<>> /\ key = <<>> /\ found = Idle
    /\ array_str = <<>> /\ pja = Idle

NextScans == NextMatch \/ NextStrip

SpecScans == InitScans /\ [][NextScans]_vars

\* Both functions are straight-line sequential code: a call that can take a
\* step takes it.
FairScans == InitScans /\ [][NextScans]_vars /\ WF_vars(NextScans)

\* The bare identifier keys of an object literal.
ObjectKeys == { <<"n">>, <<"i", "d">> }

\* What a single-quoted value of an object literal holds.
ObjectStrings ==
    { <<"J", "o", "e">>, <<"a", " ", "b">>, <<>>, <<"h", "t", "t", "p", ":", "/", "/", "x">> }

\* The values of an object literal: js is how the value is written in the
\* literal, json how strict text writes it, val what it parses to.
ObjectValues ==
    {[js |-> <<SQ>> \o c \o <<SQ>>, json |-> <<DQ>> \o c \o <<DQ>>,
      val |-> [t |-> "str", v |-> c]] : c \in ObjectStrings}
    \cup {[js |-> <<"5">>, json |-> <<"5">>, val |-> [t |-> "num", v |-> <<"5">>]]}

\* The object literals of n pairs written with the white space sp after each
\* colon and comma, and a trailing comma: js is the literal, json the strict
\* text of the same mapping, pairs the mapping.
RECURSIVE ObjectBodies(_, _)
ObjectBodies(n, sp) ==
    IF n = 0 THEN {[js |-> <<>>, json |-> <<>>, pairs |-> <<>>]}
    ELSE {[js |-> b.js \o k \o <<":">> \o sp \o x.js \o <<",">> \o sp,
           json |-> b.json \o (IF b.json = <<>> THEN <<>> ELSE <<",">> \o sp)
                      \o <<DQ>> \o k \o <<DQ, ":">> \o sp \o x.json,
           pairs |-> JPut(b.pairs, k, x.val)] :
              b \in ObjectBodies(n - 1, sp), k \in ObjectKeys, x \in ObjectValues}

ObjectLiterals ==
    {[js |-> <<"{">> \o b.js \o <<"}">>, json |-> <<"{">> \o b.json \o <<"}">>,
      val |-> [t |-> "obj", v |-> b.pairs]] :
        b \in UNION {ObjectBodies(n, sp) : n \in 1..MaxPairs, sp \in {<<>>, <<" ">>}}}

\* A call parse_js_array(array_str) about to be made on an object literal.
InitObject ==
    /\ array_str \in {lit.js : lit \in ObjectLiterals}
    /\ pc = "pja_call"
    /\ pja = Idle
    /\ s = <<>> /\ start_index = 0 /\ fmb = Idle
    /\ source = <<>> /\ rjc = Idle
    /\ js_text = <<>> /\ key = <<>> /\ found = Idle

SpecObject == InitObject /\ [][NextParse]_vars

\* ------------------------------------------- the string state of a scan

\* Lines 62-89 without the output: the string and escape state that
\* remove_js_comments keeps, advanced over one character that is not part of
\* a comment.  A backslash starts an escape only inside a string.
CursorStep(c, ch) ==
    IF c.escape THEN [c EXCEPT !.escape = FALSE]
    ELSE IF c.in_string
         THEN IF ch = BS THEN [c EXCEPT !.escape = TRUE]
              ELSE IF ch = c.string_char
                   THEN [c EXCEPT !.in_string = FALSE, !.string_char = None]
                   ELSE c
    ELSE IF ch = DQ \/ ch = SQ
         THEN [c EXCEPT !.in_string = TRUE, !.string_char = ch]
    ELSE c

\* Lines 57-59: the state a scan starts in.
CursorEnter == [in_string |-> FALSE, string_char |-> None, escape |-> FALSE]

\* The state in which position p is read by a scan that started at position a.
RECURSIVE CursorAt(_, _, _)
CursorAt(text, a, p) ==
    IF p <= a THEN CursorEnter ELSE CursorStep(CursorAt(text, a, p - 1), At(text, p - 1))

Bare(c) == ~c.in_string /\ ~c.escape

\* No "//" and no "/*" starts outside a string.
NoBareOpener(text) ==
    \A p \in 0..(Len(text) - 2) :
        ~(Bare(CursorAt(text, 0, p)) /\ At(text, p) = "/" /\ At(text, p + 1) \in {"/", "*"})

\* The locals of remove_js_comments when its scan first reaches position p or beyond.
RECURSIVE RjcUntil(_, _, _)
RjcUntil(text, r, p) ==
    IF r.outcome # "running" \/ r.i >= p THEN r ELSE RjcUntil(text, RjcStep(text, r), p)

HasBlockClose(text, from) ==
    \E q \in from..(Len(text) - 2) : At(text, q) = "*" /\ At(text, q + 1) = "/"

\* The scan reads position p outside a string, "/*" starts there and no "*/" follows.
UnterminatedBlockAt(text, p) ==
    LET r == RjcUntil(text, RjcEnter, p) IN
    /\ p + 1 < Len(text)
    /\ r.outcome = "running" /\ r.i = p /\ ~r.in_string /\ ~r.escape
    /\ At(text, p) = "/" /\ At(text, p + 1) = "*"
    /\ ~HasBlockClose(text, p + 2)

\* ------------------------------------------------------------------ C1

\* C1: when a block comment opened outside a string is never closed,
\* remove_js_comments returns exactly what it had emitted before the opener:
\* nothing after the opener, the last character of the text included, is copied.
C1_UnterminatedBlockDropsRest ==
    pc = "done" =>
        \A p \in 0..(Len(source) - 1) :
            UnterminatedBlockAt(source, p) =>
                rjc.result_chars = RjcUntil(source, RjcEnter, p).result_chars

\* ------------------------------------------------------------------ C2

\* The iteration copies the character it reads and moves one position on.
RjcCopiesOne ==
    /\ rjc'.result_chars = Append(rjc.result_chars, At(source, rjc.i))
    /\ rjc'.i = rjc.i + 1

\* The iteration deletes: it reads a comment opener outside a string and only skips.
RjcSkipsComment ==
    /\ ~rjc.in_string /\ ~rjc.escape
    /\ rjc.i + 1 < Len(source)
    /\ At(source, rjc.i) = "/" /\ At(source, rjc.i + 1) \in {"/", "*"}
    /\ rjc'.result_chars = rjc.result_chars
    /\ rjc'.i > rjc.i

RjcIterating == pc = "rjc" /\ rjc.outcome = "running" /\ rjc.i < Len(source)

\* C2: remove_js_comments deletes only at a comment opener read outside a
\* string: every other iteration, and so every iteration inside a string,
\* copies the character read, in order; and a text with no "//" or "/*"
\* outside a string is returned unchanged.
C2_OnlyCommentsDeleted ==
    /\ [](pc = "done" /\ NoBareOpener(source) => rjc.result_chars = source)
    /\ [][RjcIterating =>
            /\ RjcCopiesOne \/ RjcSkipsComment
            /\ (rjc.in_string \/ rjc.escape) => RjcCopiesOne]_vars

\* A string holding "//" or "/*" has been scanned and came out unchanged.
C2_Witness ==
    /\ pc = "done"
    /\ \E p \in 0..(Len(source) - 2) :
          /\ CursorAt(source, 0, p).in_string
          /\ At(source, p) = "/" /\ At(source, p + 1) \in {"/", "*"}
    /\ NoBareOpener(source)
    /\ ~rjc.in_string
    /\ rjc.result_chars = source

\* ------------------------------------------------------------------ C3

\* Comment removal as the claim means it: comments that start outside a
\* string are dropped, an unterminated block comment to the end of the text.
RECURSIVE RefStripComments(_, _, _)
RefStripComments(text, i, c) ==
    IF i >= Len(text) THEN <<>>
    ELSE IF Bare(c) /\ HasPrefix(text, i, <<"/", "/">>)
         THEN RefStripComments(text, SkipLine(text, i + 2), c)
    ELSE IF Bare(c) /\ HasPrefix(text, i, <<"/", "*">>)
         THEN IF HasBlockClose(text, i + 2)
              THEN RefStripComments(text, SkipBlock(text, i + 2) + 2, c)
              ELSE <<>>
    ELSE <<At(text, i)>> \o RefStripComments(text, i + 1, CursorStep(c, At(text, i)))

\* Trailing-comma removal as the claim means it: a comma outside a string
\* that only white space separates from a closing bracket is dropped.
RECURSIVE RefStripTrailing(_, _, _)
RefStripTrailing(text, i, c) ==
    IF i >= Len(text) THEN <<>>
    ELSE IF /\ Bare(c) /\ At(text, i) = ","
            /\ SkipSpaces(text, i + 1) < Len(text)
            /\ At(text, SkipSpaces(text, i + 1)) \in {"]", "}"}
         THEN RefStripTrailing(text, SkipSpaces(text, i + 1), c)
    ELSE <<At(text, i)>> \o RefStripTrailing(text, i + 1, CursorStep(c, At(text, i)))

RefClean(text) ==
    RefStripTrailing(RefStripComments(text, 0, CursorEnter), 0, CursorEnter)

\* C3: when the array V that extract_array_by_key located is strict
\* structured data once its comments and trailing commas are removed,
\* parse_js_array returns the value of strictly parsing that text.
C3_ExtractThenParseIsStrictValue ==
    (pc = "done" /\ found.outcome = "return" /\ ~found.none
        /\ JsonLoads(RefClean(found.value)).ok)
    => (pja.outcome = "return" /\ pja.value = JsonLoads(RefClean(found.value)).val)

\* ------------------------------------------------------------------ C4

FirstBare == Search("bare", js_text, key, 0)

FirstQuoted == Search("quoted", js_text, key, 0)

\* The pattern matched and the bracket matcher found the end of its array.
Resolves(m) ==
    m.start # -1 /\ FindMatchingBracket(js_text, m.end - 1).outcome = "return"

\* The span of the array of match m was returned.
FoundSpanOf(m) ==
    /\ found.outcome = "return" /\ ~found.none
    /\ found.start_bracket = m.end - 1
    /\ found.end_bracket = FindMatchingBracket(js_text, m.end - 1).value
    /\ found.value = Slice(js_text, found.start_bracket, found.end_bracket + 1)

\* The first occurrence in document order, of either form.
FirstOccurrence ==
    IF FirstQuoted.start # -1 /\ (FirstBare.start = -1 \/ FirstQuoted.start < FirstBare.start)
    THEN FirstQuoted
    ELSE FirstBare

\* C4 as claimed: the span returned is that of the first occurrence in
\* document order of the key bound to an array, bare or quoted.
C4_FirstOccurrenceInDocumentOrder ==
    (pc # "extract_call" /\ Resolves(FirstOccurrence)) => FoundSpanOf(FirstOccurrence)

\* C4 as amended: the bare form is tried first.  The span of the leftmost
\* bare occurrence is returned whenever its brackets match, also when a quoted
\* occurrence stands earlier in the text; the leftmost quoted occurrence is
\* used only when no bare occurrence resolves; otherwise None is returned.
C4_BareFormTriedFirst ==
    pc # "extract_call" =>
        /\ Resolves(FirstBare) => FoundSpanOf(FirstBare)
        /\ (~Resolves(FirstBare) /\ Resolves(FirstQuoted)) => FoundSpanOf(FirstQuoted)
        /\ (~Resolves(FirstBare) /\ ~Resolves(FirstQuoted))
              => (found.outcome = "return" /\ found.none)

\* A quoted occurrence stands before a bare one, both resolve, and the span
\* returned is that of the bare one.
C4_Witness ==
    /\ pc # "extract_call"
    /\ FirstQuoted.start # -1 /\ FirstQuoted.start < FirstBare.start
    /\ Resolves(FirstQuoted) /\ Resolves(FirstBare)
    /\ FoundSpanOf(FirstBare)

\* ------------------------------------------------------------------ C5

\* The bracket matcher raised on the match of a pattern that was tried.
MatcherFailedOnBare == FirstBare.start # -1 /\ ~Resolves(FirstBare)

MatcherFailedOnQuoted ==
    ~Resolves(FirstBare) /\ FirstQuoted.start # -1 /\ ~Resolves(FirstQuoted)

\* C5 as claimed: an error of the bracket matcher reaches the caller of
\* extract_array_by_key.
C5_MatcherErrorReachesCaller ==
    (pc # "extract_call" /\ (MatcherFailedOnBare \/ MatcherFailedOnQuoted))
    => found.outcome = "raise"

\* C5 as amended: extract_array_by_key never raises.  An error of the bracket
\* matcher is caught and the next pattern is tried: after a failure on the
\* bare form the caller gets the span of the quoted form if that resolves,
\* and None otherwise; after a failure on the quoted form it gets None.
C5_MatcherErrorIsSwallowed ==
    pc # "extract_call" =>
        /\ found.outcome = "return"
        /\ (MatcherFailedOnBare /\ Resolves(FirstQuoted)) => FoundSpanOf(FirstQuoted)
        /\ (MatcherFailedOnBare /\ ~Resolves(FirstQuoted)) => found.none
        /\ MatcherFailedOnQuoted => found.none

\* The matcher failed on the bare form and the quoted form's span came back.
C5_Witness ==
    /\ pc # "extract_call"
    /\ MatcherFailedOnBare
    /\ Resolves(FirstQuoted) /\ FoundSpanOf(FirstQuoted)
    /\ found.pattern = 2

\* ------------------------------------------------------------------ C6

\* The characters strictly inside the double-quoted string literals of a
\* text, each literal closed by "END".
RECURSIVE DQContents(_, _, _)
DQContents(text, i, c) ==
    IF i >= Len(text) THEN <<>>
    ELSE LET ch == At(text, i)
             inDQ == c.in_string /\ c.string_char = DQ
             here == IF ~inDQ THEN <<>>
                     ELSE IF ~c.escape /\ ch = DQ THEN <<"END">>
                     ELSE <<ch>>
         IN here \o DQContents(text, i + 1, CursorStep(c, ch))

\* Every string literal of the text is closed.
StringsClosed(text) == Bare(CursorAt(text, 0, Len(text)))

\* No character of chars stands outside the double-quoted strings of the text.
OnlyInDQ(text, chars) ==
    \A p \in 0..(Len(text) - 1) :
        At(text, p) \in chars =>
            LET c == CursorAt(text, 0, p) IN c.in_string /\ c.string_char = DQ

PjaParsedText ==
    IF pja.alt2 # Unset THEN pja.alt2 ELSE IF pja.alt # Unset THEN pja.alt ELSE pja.cleaned

\* C10: parse_js_array runs its stages in a fixed order.  cleaned is always
\* the input without comments and trailing commas; a strict parse of cleaned
\* that succeeds is returned with no rewrite made; alt, the quote-rewritten
\* cleaned, exists only after that parse failed; alt2, alt with its bare keys
\* quoted, exists only after the parse of alt failed; the call raises only
\* after the parse of alt2 failed.
C10_StagesInOrder ==
    pja.outcome # "idle" =>
        /\ pja.cleaned = SubTrailingCommas(RemoveJsComments(array_str), 0)
        /\ pja.at = "try" => (pja.alt = Unset /\ pja.alt2 = Unset)
        /\ (JsonLoads(pja.cleaned).ok /\ pja.at # "try")
              => (/\ pja.outcome = "return" /\ pja.value = JsonLoads(pja.cleaned).val
                  /\ pja.alt = Unset /\ pja.alt2 = Unset)
        /\ pja.alt # Unset
              => (~JsonLoads(pja.cleaned).ok /\ pja.alt = SubSingleQuotes(pja.cleaned, 0))
        /\ pja.alt2 # Unset
              => (/\ pja.alt # Unset /\ ~JsonLoads(pja.alt).ok
                  /\ pja.alt2 = SubQuoteKeys(pja.alt, 0))
        /\ pja.outcome = "return"
              => (JsonLoads(PjaParsedText).ok /\ pja.value = JsonLoads(PjaParsedText).val)
        /\ pja.outcome = "raise" => (pja.alt2 # Unset /\ ~JsonLoads(pja.alt2).ok)

\* Both rewrites were needed and made a difference, and the last parse succeeded.
C10_Witness ==
    /\ pc = "done" /\ pja.outcome = "return"
    /\ pja.alt # Unset /\ pja.alt # pja.cleaned
    /\ pja.alt2 # Unset /\ pja.alt2 # pja.alt

\* ------------------------------------------------------------------ C11

\* C11: for an object literal with bare identifier keys, single-quoted values
\* and a trailing comma, the stages of parse_js_array add up: the text last
\* parsed is the strict text of the literal, every key and every such value
\* double-quoted, and the call returns the mapping of those keys to those values.
C11_FallbacksAddUp ==
    pc = "done" =>
        \A lit \in ObjectLiterals :
            array_str = lit.js =>
                /\ pja.outcome = "return"
                /\ PjaParsedText = lit.json
                /\ pja.value = lit.val

\* ------------------------------------------------------------------ C12

IsTerminator(ch) == ch \in {CR, NL}

BlockCloseAt(text, q) == q + 1 < Len(text) /\ At(text, q) = "*" /\ At(text, q + 1) = "/"

\* The iteration reads ch followed by nxt outside a string.
RjcAtOpener(nxt) ==
    /\ RjcIterating /\ ~rjc.in_string /\ ~rjc.escape
    /\ rjc.i + 1 < Len(source)
    /\ At(source, rjc.i) = "/" /\ At(source, rjc.i + 1) = nxt

\* C12: an iteration of remove_js_comments that reads "//" outside a string
\* copies nothing and stops on the next "\r" or "\n" (or at the end of the
\* text), which the next iteration copies; one that reads "/*" with a "*/"
\* beginning after the opener copies nothing and resumes right after the
\* first such "*/".
C12_CommentExtent ==
    /\ [][RjcAtOpener("/") =>
            /\ rjc'.result_chars = rjc.result_chars
            /\ rjc'.i >= rjc.i + 2 /\ rjc'.i <= Len(source)
            /\ \A q \in (rjc.i + 2)..(rjc'.i - 1) : ~IsTerminator(At(source, q))
            /\ rjc'.i < Len(source) => IsTerminator(At(source, rjc'.i))
            /\ ~rjc'.in_string /\ ~rjc'.escape]_vars
    /\ [][(RjcAtOpener("*") /\ HasBlockClose(source, rjc.i + 2)) =>
            /\ rjc'.result_chars = rjc.result_chars
            /\ BlockCloseAt(source, rjc'.i - 2)
            /\ rjc'.i - 2 >= rjc.i + 2
            /\ \A q \in (rjc.i + 2)..(rjc'.i - 3) : ~BlockCloseAt(source, q)
            /\ ~rjc'.in_string /\ ~rjc'.escape]_vars
    /\ [][(RjcIterating /\ ~rjc.in_string /\ ~rjc.escape
             /\ IsTerminator(At(source, rjc.i))) => RjcCopiesOne]_vars

\* A line comment that is not empty was removed and its terminator was kept.
C12_Witness ==
    /\ pc = "done"
    /\ \E p \in 0..(Len(source) - 4) :
          LET r == RjcUntil(source, RjcEnter, p) IN
          /\ r.i = p /\ ~r.in_string /\ ~r.escape
          /\ At(source, p) = "/" /\ At(source, p + 1) = "/"
          /\ ~IsTerminator(At(source, p + 2))
          /\ IsTerminator(At(source, p + 3))
          /\ rjc.result_chars =
                r.result_chars \o RemoveJsComments(Slice(source, p + 3, Len(source)))
          /\ At(rjc.result_chars, Len(r.result_chars)) = At(source, p + 3)

\* ------------------------------------------------------------------ C13

\* C13: in every scan state of find_matching_bracket the escape flag is set
\* only at the position right after a backslash that was read inside a
\* string with no escape pending; a backslash read outside a string does
\* not set it.
C13_EscapeOnlyInsideString ==
    (pc = "fmb" /\ fmb.outcome = "running" /\ fmb.escape) =>
        /\ fmb.i - 1 > start_index
        /\ At(s, fmb.i - 1) = BS
        /\ CursorAt(s, start_index + 1, fmb.i - 1).in_string
        /\ ~CursorAt(s, start_index + 1, fmb.i - 1).escape

\* ------------------------------------------------------------------ C14

\* The locals of remove_js_comments when a scan of the text after start_index
\* reaches the position find_matching_bracket is at.
RjcAlongside ==
    RjcUntil(Slice(s, start_index + 1, Len(s)), RjcEnter, fmb.i - (start_index + 1))

\* C14: on a text without comments, find_matching_bracket and
\* remove_js_comments, started at the same position outside a string, have
\* the same in_string and the same string delimiter at every later position.
C14_ScannersAgree ==
    (pc = "fmb" /\ fmb.outcome = "running") =>
        /\ RjcAlongside.i = fmb.i - (start_index + 1)
        /\ RjcAlongside.in_string = fmb.in_string
        /\ RjcAlongside.string_char = fmb.string_char

\* ------------------------------------------------------------------ C15

FmbIterating == pc = "fmb" /\ fmb.outcome = "running" /\ fmb.i < Len(s)

\* C15: every iteration of the loop of find_matching_bracket that does not
\* leave the function moves the index one position on, every iteration of
\* the outer loop of remove_js_comments moves its index at least one
\* position on and never past the end of the text, no step moves an index
\* back, and every call of either function comes to an end.
C15_IndexIncreasesAndScanEnds ==
    /\ [][(FmbIterating /\ fmb'.outcome = "running") => fmb'.i = fmb.i + 1]_vars
    /\ [][FmbIterating => fmb'.i >= fmb.i]_vars
    /\ [][RjcIterating => (rjc'.i > rjc.i /\ rjc'.i <= Len(source))]_vars
    /\ <>(pc = "done")

\* remove_js_comments returned from a text that ends inside a block comment.
C15_Witness ==
    /\ pc = "done" /\ rjc.outcome = "return"
    /\ \E p \in 0..(Len(source) - 1) : UnterminatedBlockAt(source, p)

\* ------------------------------------------------------------------ C16

\* C16: an iteration of find_matching_bracket entered with in_string true
\* leaves the bracket stack as it is, whatever character it reads, and does
\* not end the call: the stack is pushed and popped only outside strings.
C16_StackFrozenInString ==
    [][(FmbIterating /\ fmb.in_string) =>
          (fmb'.stack = fmb.stack /\ fmb'.outcome = "running")]_vars

\* A bracket was read inside a string and the stack still holds the opener only.
C16_Witness ==
    /\ pc = "fmb" /\ fmb.outcome = "running" /\ fmb.in_string
    /\ fmb.i - 1 > start_index + 1
    /\ At(s, fmb.i - 1) \in {"[", "{", "]", "}"}
    /\ CursorAt(s, start_index + 1, fmb.i - 1).in_string
    /\ fmb.stack = <<At(s, start_index)>>

\* ------------------------------------------------------------------ C17

\* The number of backslashes that stand directly before position i.
RECURSIVE BackslashesBefore(_, _)
BackslashesBefore(text, i) ==
    IF i = 0 \/ At(text, i - 1) # BS THEN 0 ELSE 1 + BackslashesBefore(text, i - 1)

\* The delimiter is a quote exactly when the scan is inside a string.
DelimiterSet(f) ==
    /\ f.in_string <=> f.string_char \in {DQ, SQ}
    /\ ~f.in_string <=> f.string_char = None

\* The iteration that reads text[i] in state f and leaves g enters a string
\* only on a quote, which becomes the delimiter, and leaves one only on an
\* unescaped quote equal to the delimiter.
StringEdge(text, f, g) ==
    /\ (~f.in_string /\ g.in_string)
          => (At(text, f.i) \in {DQ, SQ} /\ g.string_char = At(text, f.i))
    /\ (f.in_string /\ g.in_string) => g.string_char = f.string_char
    /\ (f.in_string /\ ~g.in_string)
          => (/\ At(text, f.i) = f.string_char
              /\ BackslashesBefore(text, f.i) % 2 = 0)

\* C17: in every scan state of find_matching_bracket and remove_js_comments
\* the string delimiter is the quote that opened the string exactly when
\* in_string is true, and a string is closed only by an unescaped quote equal
\* to its delimiter: the other kind of quote does not close it.
C17_DelimiterIffInString ==
    /\ [](fmb.outcome # "idle" => DelimiterSet(fmb))
    /\ [](rjc.outcome # "idle" => DelimiterSet(rjc))
    /\ [][FmbIterating => StringEdge(s, fmb, fmb')]_vars
    /\ [][RjcIterating => StringEdge(source, rjc, rjc')]_vars

\* A string that holds the other kind of quote was closed by its own delimiter.
C17_Witness ==
    /\ pc = "rjc" /\ rjc.i >= 3 /\ ~rjc.in_string /\ rjc.string_char = None
    /\ At(source, rjc.i - 1) \in {DQ, SQ}
    /\ At(source, rjc.i - 3) = At(source, rjc.i - 1)
    /\ At(source, rjc.i - 2) \in {DQ, SQ} \ {At(source, rjc.i - 1)}
    /\ RjcUntil(source, RjcEnter, rjc.i - 1).in_string
    /\ RjcUntil(source, RjcEnter, rjc.i - 1).string_char = At(source, rjc.i - 1)
    /\ RjcUntil(source, RjcEnter, rjc.i - 3).in_string = FALSE

\* ------------------------------------------------------------------ C18

\* extract_array_by_key on the text without its comments.
FoundInStripped == ExtractArrayByKey(RemoveJsComments(js_text), key)

\* C18: the span extract_array_by_key finds does not depend on what the
\* comments hold: the span found in the text, with its comments removed, is
\* the span found in the text without comments, and one is None exactly when
\* the other is.
C18_SpanIgnoresComments ==
    pc # "extract_call" =>
        /\ found.none <=> FoundInStripped.none
        /\ ~found.none => RemoveJsComments(found.value) = FoundInStripped.value

\* ------------------------------------------------------------------ C19

\* C19: remove_js_comments is idempotent: applied to its own result it
\* returns that result unchanged.
C19_StripIsIdempotent ==
    pc = "done" => RemoveJsComments(rjc.result_chars) = rjc.result_chars

\* A terminated block comment was removed from before a "/" or a "*" that stays.
C19_Witness ==
    /\ pc = "done"
    /\ \E p \in 0..(Len(source) - 5) :
          LET r == RjcUntil(source, RjcEnter, p) IN
          /\ r.i = p /\ ~r.in_string /\ ~r.escape
          /\ At(source, p) = "/" /\ At(source, p + 1) = "*"
          /\ BlockCloseAt(source, p + 2)
          /\ At(source, p + 4) \in {"/", "*"}
          /\ rjc.result_chars = Append(r.result_chars, At(source, p + 4))

\* ------------------------------------------------------------------ C20

\* C20: the bracket stack of find_matching_bracket is not empty at the top
\* of any loop iteration, so no call raises "Unbalanced brackets".
C20_StackNeverEmptyInLoop ==
    /\ (pc = "fmb" /\ fmb.outcome = "running") => fmb.stack # <<>>
    /\ fmb.outcome = "raise" => fmb.err # "Unbalanced brackets"

\* Closers were read down to the last open bracket, and the call returned
\* at the closer that emptied the stack.
C20_Witness ==
    /\ pc = "done" /\ fmb.outcome = "return" /\ fmb.stack = <<>>
    /\ fmb.value >= start_index + 3
    /\ At(s, fmb.value - 1) \in {"]", "}"}
    /\ Bare(CursorAt(s, start_index + 1, fmb.value - 1))

\* ------------------------------------------------------------------ C7

\* C7: when find_matching_bracket reaches the end of the text with brackets
\* still open it raises, and whenever it returns a position the stack is
\* empty and the position lies inside the text.
C7_EndOfTextRaises ==
    /\ (fmb.outcome \notin {"idle", "running"} /\ fmb.i >= Len(s) /\ fmb.stack # <<>>)
          => (fmb.outcome = "raise" /\ fmb.err = "No matching bracket found")
    /\ fmb.outcome = "return" => (fmb.stack = <<>> /\ fmb.value < Len(s))

\* The end of the text was reached with two brackets open, and the call raised.
C7_Witness ==
    /\ pc = "done" /\ fmb.i >= Len(s) /\ Len(fmb.stack) >= 2
    /\ fmb.outcome = "raise"

\* ------------------------------------------------------------------ C8

Closes(open, close) == (open = "[" /\ close = "]") \/ (open = "{" /\ close = "}")

\* C8: a closing bracket read outside a string whose kind differs from the
\* innermost open bracket makes find_matching_bracket raise "Mismatched
\* brackets" at that closer.
C8_MismatchedCloserRaises ==
    [][(/\ pc = "fmb" /\ fmb.outcome = "running" /\ fmb.i < Len(s)
        /\ ~fmb.in_string
        /\ At(s, fmb.i) \in {"]", "}"}
        /\ fmb.stack # <<>>
        /\ ~Closes(Last(fmb.stack), At(s, fmb.i)))
       => (fmb'.outcome = "raise" /\ fmb'.err = "Mismatched brackets"
           /\ fmb'.i = fmb.i)]_vars

\* ------------------------------------------------------------------ C9

\* The brackets of text[a..b] that lie outside string literals, for a scan
\* that starts after position a.
RECURSIVE BareBrackets(_, _, _)
BareBrackets(text, a, b) ==
    IF b < a THEN <<>>
    ELSE LET rest == BareBrackets(text, a, b - 1)
             ch == At(text, b)
         IN IF ch \in {"[", "{", "]", "}"} /\ (b = a \/ Bare(CursorAt(text, a + 1, b)))
            THEN Append(rest, ch)
            ELSE rest

\* The stack left by a sequence of brackets, or <<"bad">> once a closer finds
\* no opener of its kind on top.
RECURSIVE NestStack(_)
NestStack(bs) ==
    IF bs = <<>> THEN <<>>
    ELSE LET st == NestStack(SubSeq(bs, 1, Len(bs) - 1))
             ch == Last(bs)
         IN IF st = <<"bad">> THEN st
            ELSE IF ch \in {"[", "{"} THEN Append(st, ch)
            ELSE IF st # <<>> /\ Closes(Last(st), ch) THEN SubSeq(st, 1, Len(st) - 1)
            ELSE <<"bad">>

\* Properly nested, and balanced at the last bracket for the first time.
ProperlyNested(bs) ==
    /\ bs # <<>>
    /\ NestStack(bs) = <<>>
    /\ \A k \in 1..(Len(bs) - 1) : NestStack(SubSeq(bs, 1, k)) # <<>>

\* C9: a position e returned by find_matching_bracket(s, start) lies after
\* start, holds the closer of the kind of s[start], and the brackets outside
\* string literals in s[start..e] are properly nested and balance at e first.
C9_ReturnedPositionMatches ==
    (pc = "done" /\ fmb.outcome = "return") =>
        /\ fmb.value > start_index
        /\ Closes(At(s, start_index), At(s, fmb.value))
        /\ ProperlyNested(BareBrackets(s, start_index, fmb.value))

====
